---- MODULE Spec2Model ----
(***************************************************************************)
(* Model of the annotation widgets of micro_sam.sam_annotator:             *)
(*   _widgets.py     tracking tool (track_object, commit_track,            *)
(*                   clear_track), 3d tool (segment_slice, segment_object, *)
(*                   commit, clear_volume, amg_3d, _segment_volume) and    *)
(*                   the AMG state cache of _instance_segmentation_impl;   *)
(*   annotator_3d.py the AMG state cache of _autosegment_widget.           *)
(* A label layer is a function from voxels <<slice, pixel>> to ids, 0 is   *)
(* background.  The segmentation oracle is external: its results are       *)
(* inputs drawn from small sets.                                           *)
(***************************************************************************)
EXTENDS Integers, Sequences, FiniteSets, TLC

\* ---------------------------------------------------------------- bounds
NSlices == 2
ScoreSteps == 2
NFrames == 2
MaxTrackId == 4
MaxId == 2
MaxCommits == 2
MaxLocal == 1
MaxInit == 2
NRequests == 2

Slices == 0 .. (NSlices - 1)
\* A slice is modelled by a single pixel.
Pixels == {1}
Voxels == Slices \X Pixels
Frames == 0 .. (NFrames - 1)
FrameVoxels == Frames \X Pixels
None == <<>>
NotInitialized == -1
Devices == {"cuda", "cpu", "mps"}
Requests == 1 .. NRequests

Zeros == [v \in Voxels |-> 0]
ZerosLike(arr) == [v \in DOMAIN arr |-> 0]
BinaryVolumes == [Voxels -> {0, 1}]
BinaryFrames == [FrameVoxels -> {0, 1}]

SetMax(S) == IF S = {} THEN 0 ELSE CHOOSE m \in S : \A n \in S : n <= m
ArrMax(arr) == SetMax({arr[v] : v \in DOMAIN arr})
Range(s) == {s[k] : k \in 1 .. Len(s)}

VARIABLES
  current_track_id,    \* AnnotatorState.current_track_id
  lineage,             \* AnnotatorState.lineage: track id -> list of children
  committed_lineages,  \* AnnotatorState.committed_lineages
  z_range,             \* AnnotatorState.z_range: None or <<z_min, z_max>>
  committed_objects,   \* viewer.layers["committed_objects"].data
  current_object,      \* viewer.layers["current_object"].data
  auto_segmentation,   \* viewer.layers["auto_segmentation"].data
  max_written,         \* history: the largest id a commit has written so far
  amg,                 \* the AMG object (AnnotatorState.amg, the global AMG of
                       \* annotator_3d): the slice its state is for, or NotInitialized
  amg_state,           \* the AMG cache (AnnotatorState.amg_state, the global
                       \* AMG_STATE of annotator_3d): slice index -> cached state
  cache_folder,        \* amg_state["cache_folder"]: "none" or "dir"
  amg_disk,            \* the slices with a state-<i>.pkl in the cache folder
  device,              \* predictor.device
  amg_init_count,      \* history: calls of amg.initialize per slice
  sv_pc,               \* _segment_volume: "idle", "slices" or "merge"
  sv_i,                \* _segment_volume: loop index i
  sv_offset,           \* _segment_volume: offset
  sv_segmentation,     \* _segment_volume: segmentation (the stack)
  w_pc,                \* per request: the statement of _instance_segmentation_impl it is at
  w_i,                 \* per request: its slice index i
  w_init,              \* per request: whether it has called amg.initialize
  last,                \* the widget call that ran last and how it ended
  propagation,         \* segment_object: the state of the propagation it runs
  auto_volume,         \* _segment_volume_for_auto_segmentation: its position
  tiling               \* the last call of _process_tiling_inputs and its result

trackState == <<current_track_id, lineage, committed_lineages>>
layerState == <<z_range, committed_objects, current_object, auto_segmentation, max_written>>
reqState == <<w_pc, w_i, w_init>>
amgState == <<amg, amg_state, cache_folder, amg_disk, device, amg_init_count, reqState>>
svState == <<sv_pc, sv_i, sv_offset, sv_segmentation>>
auxState == <<propagation, auto_volume, tiling>>
vars == <<trackState, layerState, amgState, svState, last, auxState>>
trackVars == vars

Call(op, flag, result) == [op |-> op, flag |-> flag, result |-> result]

\* No propagation is running.
PropagationIdle ==
  [pc |-> "idle", annotated |-> {}, seg |-> Zeros, front |-> <<0, 0>>,
   status |-> <<"ACTIVE", "ACTIVE">>, iou_threshold |-> 0, dir |-> 0, score |-> 0]

\* _segment_volume_for_auto_segmentation is not running.
AutoVolumeIdle == [pc |-> "idle", start_slice |-> 0, object_ids |-> {}]

\* _process_tiling_inputs has not been called.
TilingNotCalled ==
  [called |-> FALSE, args |-> <<0, 0, 0, 0>>, tile_shape |-> None, halo |-> None,
   result |-> "ok"]

\* ------------------------------------------------- _reset_tracking_state
ResetLineage == (1 :> <<>>)

\* --------------------------------------------------------- _commit_impl
\* bb: the slices selected by z_range (all of them when z_range is None).
InBB(v) == z_range = None \/ (z_range[1] <= v[1] /\ v[1] <= z_range[2])

\* id_offset: the max over the whole committed_objects volume.
CommitOffsetInBB == SetMax({committed_objects[v] : v \in {u \in DOMAIN committed_objects : InBB(u)}})
CommitOffset == ArrMax(committed_objects)

\* mask = seg != 0, seg being the view layer[bb].
CommitMask(layer, v) == InBB(v) /\ layer[v] # 0

\* seg[mask] += id_offset; committed_objects[bb][mask] = seg[mask]
CommitWriteUnshifted(layer, id_offset) ==
  [v \in DOMAIN layer |-> IF CommitMask(layer, v) THEN layer[v] ELSE committed_objects[v]]
CommitWrite(layer, id_offset) ==
  [v \in DOMAIN layer |-> IF CommitMask(layer, v) THEN layer[v] + id_offset
                    ELSE committed_objects[v]]

WrittenBy(layer, id_offset) ==
  {layer[v] + id_offset : v \in {u \in DOMAIN layer : CommitMask(layer, u)}}

MaxWritten(layer, id_offset) == SetMax({max_written} \cup WrittenBy(layer, id_offset))

\* ------------------------------------------------------ _update_lineage
\* The two assertions of _update_lineage.
LineageAsserts(mother) == mother \in DOMAIN lineage /\ Len(lineage[mother]) = 0

Daughters(mother) == <<mother + 1, mother + 2>>

_update_lineage(mother) ==
  LET d == Daughters(mother)
      keys == DOMAIN lineage \cup {d[1], d[2]}
  IN  [k \in keys |-> IF k = mother THEN d
                      ELSE IF k \in {d[1], d[2]} THEN <<>>
                      ELSE lineage[k]]

\* ---------------------------------------------------------- track_object
\* The condition under which track_object calls _update_lineage.
AnyDivision(has_division) == has_division
FirstDivision(has_division) ==
  has_division /\ Len(lineage[current_track_id]) = 0

\* seg and has_division are what track_from_prompts returned.
track_object(seg, has_division) ==
  /\ has_division => current_track_id + 2 <= MaxTrackId
  /\ IF FirstDivision(has_division) /\ ~LineageAsserts(current_track_id)
     THEN \* AssertionError in _update_lineage: the widget call is aborted.
          /\ last' = Call("track_object", has_division, "error")
          /\ UNCHANGED <<lineage, current_object>>
     ELSE /\ lineage' = IF FirstDivision(has_division)
                        THEN _update_lineage(current_track_id) ELSE lineage
          /\ current_object' =
               [v \in DOMAIN current_object |-> IF seg[v] = 1 THEN current_track_id
                                 ELSE IF current_object[v] = current_track_id THEN 0
                                 ELSE current_object[v]]
          /\ last' = Call("track_object", has_division, "ok")
  /\ UNCHANGED <<current_track_id, committed_lineages, z_range, committed_objects>>
  /\ UNCHANGED <<auto_segmentation, max_written, amgState, svState, auxState>>

\* The track_id menu: its choices are the keys of the lineage.
select_track(t) ==
  /\ t \in DOMAIN lineage
  /\ current_track_id' = t
  /\ last' = Call("select_track", FALSE, "ok")
  /\ UNCHANGED <<lineage, committed_lineages, layerState, amgState, svState, auxState>>

\* ---------------------------------------------------------- commit_track
ShiftLineage(id_offset) ==
  [p \in {k + id_offset : k \in DOMAIN lineage} |->
     [n \in 1 .. Len(lineage[p - id_offset]) |-> lineage[p - id_offset][n] + id_offset]]

\* state.committed_lineages.append(updated_lineage)
ReplaceLineages(cl, updated_lineage) == <<updated_lineage>>
AppendLineage(cl, updated_lineage) == Append(cl, updated_lineage)

commit_track ==
  LET id_offset == CommitOffset IN
  /\ Len(committed_lineages) < MaxCommits
  /\ id_offset + ArrMax(current_object) <= MaxId
  /\ committed_objects' = CommitWrite(current_object, id_offset)
  /\ committed_lineages' = AppendLineage(committed_lineages, ShiftLineage(id_offset))
  /\ current_object' = ZerosLike(current_object)
  /\ current_track_id' = 1
  /\ lineage' = ResetLineage
  /\ max_written' = MaxWritten(current_object, id_offset)
  /\ last' = Call("commit_track", FALSE, "ok")
  /\ UNCHANGED <<z_range, auto_segmentation, amgState, svState, auxState>>

\* ----------------------------------------------------------- clear_track
\* vutil.clear_annotations_slice(viewer, i=i)
ClearSlice(layer, i) == [v \in DOMAIN layer |-> IF v[1] = i THEN 0 ELSE layer[v]]

\* if all_frames: _reset_tracking_state(viewer)
AlwaysResets(all_frames) == TRUE
ResetsTracking(all_frames) == all_frames

clear_track(all_frames, i) ==
  /\ IF ResetsTracking(all_frames)
     THEN /\ current_track_id' = 1
          /\ lineage' = ResetLineage
          /\ current_object' = ZerosLike(current_object)
     ELSE /\ current_object' = ClearSlice(current_object, i)
          /\ UNCHANGED <<current_track_id, lineage>>
  /\ last' = Call("clear_track", all_frames, "ok")
  /\ UNCHANGED <<committed_lineages, z_range, committed_objects>>
  /\ UNCHANGED <<auto_segmentation, max_written, amgState, svState, auxState>>

InitLayers(voxels) ==
  /\ committed_objects = [v \in voxels |-> 0]
  /\ current_object = [v \in voxels |-> 0]
  /\ auto_segmentation = [v \in voxels |-> 0]

InitState ==
  /\ current_track_id = 1
  /\ lineage = ResetLineage
  /\ committed_lineages = <<>>
  /\ z_range = None
  /\ max_written = 0
  /\ amg = NotInitialized
  /\ amg_init_count = [i \in Slices |-> 0]
  /\ sv_pc = "idle"
  /\ sv_i = 0
  /\ sv_offset = 0
  /\ sv_segmentation = Zeros
  /\ w_pc = [w \in Requests |-> "idle"]
  /\ w_i = [w \in Requests |-> 0]
  /\ w_init = [w \in Requests |-> FALSE]
  /\ last = Call("init", FALSE, "ok")
  /\ propagation = PropagationIdle
  /\ auto_volume = AutoVolumeIdle
  /\ tiling = TilingNotCalled

\* The AMG states found in the cache folder when the tool starts.
InitCache ==
  /\ cache_folder \in {"none", "dir"}
  /\ amg_disk \in SUBSET Slices
  /\ cache_folder = "none" => amg_disk = {}
  /\ amg_state = [i \in amg_disk |-> i]
  /\ device \in Devices

InitTracking ==
  /\ InitState
  /\ InitLayers(FrameVoxels)
  /\ cache_folder = "none" /\ amg_disk = {} /\ amg_state = [i \in {} |-> i]
  /\ device = "cuda"

NextTracking ==
  \/ \E seg \in BinaryFrames, has_division \in BOOLEAN : track_object(seg, has_division)
  \/ \E t \in 1 .. MaxTrackId : select_track(t)
  \/ commit_track
  \/ \E all_frames \in BOOLEAN, i \in Frames : clear_track(all_frames, i)

SpecTracking == InitTracking /\ [][NextTracking]_trackVars

\* The tracking tool between two commits.
NextLineage ==
  \/ \E seg \in BinaryFrames, has_division \in BOOLEAN : track_object(seg, has_division)
  \/ \E t \in 1 .. MaxTrackId : select_track(t)
  \/ \E all_frames \in BOOLEAN, i \in Frames : clear_track(all_frames, i)

SpecLineage == InitTracking /\ [][NextLineage]_trackVars

\* ------------------------------------------------------------ 3d widgets
SliceSegs == [Pixels -> {0, 1}]
AutoSegs == [Pixels -> 0 .. MaxLocal]
SegMax(seg) == SetMax({seg[x] : x \in Pixels})

SetSlice(layer, i, seg) == [v \in DOMAIN layer |-> IF v[1] = i THEN seg[v[2]] ELSE layer[v]]

\* No widget call is running: the widgets run one at a time.
Idle == sv_pc = "idle" /\ propagation.pc = "idle" /\ auto_volume.pc = "idle"

\* What the prompts of a widget call lead to: "stop" (point_layer_to_prompts
\* returned nothing), "none" (prompt_segmentation returned None) or "seg"
\* (prompt_segmentation returned the segmentation seg).
\* if not point_prompts: return
NeverStop(prompts) == FALSE
IsStopPrompt(prompts) == prompts = "stop"

\* if seg is None: return
NeverSkip(prompts) == FALSE
SegIsNone(prompts) == prompts = "none"

\* The flag of the call: prompt_segmentation has been called.
segment_slice(z, prompts, seg) ==
  /\ Idle
  /\ IF IsStopPrompt(prompts) \/ SegIsNone(prompts)
     THEN UNCHANGED current_object
     ELSE current_object' = SetSlice(current_object, z, seg)
  /\ last' = Call("segment_slice", ~IsStopPrompt(prompts), prompts)
  /\ UNCHANGED <<trackState, z_range, committed_objects, auto_segmentation, max_written>>
  /\ UNCHANGED <<amgState, svState, auxState>>

\* segment (2d tool): the prompts are read with_stop_annotation=False.
segment(prompts, seg) ==
  /\ Idle
  /\ prompts \in {"none", "seg"}
  /\ IF SegIsNone(prompts)
     THEN UNCHANGED current_object
     ELSE current_object' = seg
  /\ last' = Call("segment", TRUE, prompts)
  /\ UNCHANGED <<trackState, z_range, committed_objects, auto_segmentation, max_written>>
  /\ UNCHANGED <<amgState, svState, auxState>>

\* segment_frame (tracking tool): the segmentation of frame t for the
\* current track id.
SetFrameTrack(layer, t, seg) ==
  [v \in DOMAIN layer |->
     IF v[1] # t THEN layer[v]
     ELSE IF seg[v[2]] = 1 THEN current_track_id
     ELSE IF layer[v] = current_track_id THEN 0
     ELSE layer[v]]

segment_frame(t, prompts, seg) ==
  /\ Idle
  /\ IF IsStopPrompt(prompts) \/ SegIsNone(prompts)
     THEN UNCHANGED current_object
     ELSE current_object' = SetFrameTrack(current_object, t, seg)
  /\ last' = Call("segment_frame", ~IsStopPrompt(prompts), prompts)
  /\ UNCHANGED <<trackState, z_range, committed_objects, auto_segmentation, max_written>>
  /\ UNCHANGED <<amgState, svState, auxState>>

\* segment_object: seg and (z_min, z_max) are what segment_mask_in_volume
\* returned, the object lying in the slices z_min .. z_max.
SegmentObjectResult(seg, z_min, z_max) ==
  /\ z_range' = <<z_min, z_max>>
  /\ current_object' = seg
  /\ last' = Call("segment_object", FALSE, "ok")
  /\ UNCHANGED <<trackState, committed_objects, auto_segmentation, max_written>>
  /\ UNCHANGED <<amgState, svState, auto_volume, tiling>>

segment_object(seg, z_min, z_max) ==
  /\ Idle
  /\ z_min <= z_max
  /\ \A v \in Voxels : seg[v] = 1 => (z_min <= v[1] /\ v[1] <= z_max)
  /\ SegmentObjectResult(seg, z_min, z_max)
  /\ UNCHANGED propagation

\* ------------------------------- segment_object, the propagation step by step
\* segment_mask_in_volume, the propagation driver: one state machine per
\* direction (1 lower, 2 upper).  The oracle's agreement scores are inputs,
\* in steps of 1 / ScoreSteps.
Scores == 0 .. ScoreSteps
Directions == {1, 2}
Step(d) == IF d = 1 THEN -1 ELSE 1
SetMin(S) == CHOOSE m \in S : \A n \in S : m <= n

AlwaysAgrees(score, iou_threshold) == TRUE
Agrees(score, iou_threshold) == score >= iou_threshold

\* Step 1 has segmented the annotated slices and read the stop directives;
\* the frontiers start at the outermost annotated slices.
segment_object_start(annotated, stop_lower, stop_upper, iou_threshold) ==
  /\ Idle
  /\ annotated # {}
  /\ propagation' =
       [pc |-> "run", annotated |-> annotated,
        seg |-> [v \in Voxels |-> IF v[1] \in annotated THEN 1 ELSE 0],
        front |-> <<SetMin(annotated), SetMax(annotated)>>,
        status |-> <<IF stop_lower THEN "STOPPED_DIRECTIVE" ELSE "ACTIVE",
                     IF stop_upper THEN "STOPPED_DIRECTIVE" ELSE "ACTIVE">>,
        iou_threshold |-> iou_threshold, dir |-> 0, score |-> 0]
  /\ last' = Call("segment_object", FALSE, "running")
  /\ UNCHANGED <<trackState, layerState, amgState, svState, auto_volume, tiling>>

\* One transition of direction d, score being the agreement of the mask the
\* oracle gave for the next slice.
propagate_step(d, score) ==
  LET next == propagation.front[d] + Step(d) IN
  /\ propagation.pc = "run"
  /\ propagation.status[d] = "ACTIVE"
  /\ propagation' =
       IF next \notin Slices
       THEN [propagation EXCEPT !.status[d] = "STOPPED_BOUNDARY", !.dir = d, !.score = score]
       ELSE IF Agrees(score, propagation.iou_threshold)
       THEN [propagation EXCEPT !.seg = SetSlice(@, next, [x \in Pixels |-> 1]),
                                !.front[d] = next, !.dir = d, !.score = score]
       ELSE [propagation EXCEPT !.status[d] = "STOPPED_LOW_AGREEMENT",
                                !.dir = d, !.score = score]
  /\ UNCHANGED <<trackState, layerState, amgState, svState, last, auto_volume, tiling>>

\* Both directions have stopped: segment_object takes the mask and the range.
segment_object_done ==
  /\ propagation.pc = "run"
  /\ \A d \in Directions : propagation.status[d] # "ACTIVE"
  /\ SegmentObjectResult(propagation.seg, propagation.front[1], propagation.front[2])
  /\ propagation' = PropagationIdle

clear_volume(all_slices, i) ==
  /\ Idle
  /\ current_object' = IF all_slices THEN Zeros ELSE ClearSlice(current_object, i)
  /\ last' = Call("clear_volume", all_slices, "ok")
  /\ UNCHANGED <<trackState, z_range, committed_objects, auto_segmentation, max_written>>
  /\ UNCHANGED <<amgState, svState, auxState>>

\* commit: layer is "current_object" or "auto_segmentation".
commit(layer) ==
  LET data == IF layer = "current_object" THEN current_object ELSE auto_segmentation
      id_offset == CommitOffset
  IN  /\ Idle
      /\ id_offset + ArrMax(data) <= MaxId
      /\ committed_objects' = CommitWrite(data, id_offset)
      /\ max_written' = MaxWritten(data, id_offset)
      /\ IF layer = "current_object"
         THEN current_object' = Zeros /\ UNCHANGED auto_segmentation
         ELSE auto_segmentation' = Zeros /\ UNCHANGED current_object
      /\ last' = Call("commit", layer = "auto_segmentation", "ok")
      /\ UNCHANGED <<trackState, z_range, amgState, svState, auxState>>

\* ------------------------------------------- _instance_segmentation_impl
\* Line 636 reads state.amge_state, an attribute AnnotatorState does not have.
CachePathLookup == "error"

PutState(cache, i, state_i) ==
  [k \in DOMAIN cache \cup {i} |-> IF k = i THEN state_i ELSE cache[k]]

CountInit(count, i) == [count EXCEPT ![i] = @ + 1]

\* The part of _instance_segmentation_impl before amg.generate, for the 3d
\* tools (amg_state is a dict, i is a slice index).
AmgPrepare(i) ==
  IF i \in DOMAIN amg_state
  THEN [amg |-> amg_state[i], amg_state |-> amg_state, amg_disk |-> amg_disk,
        count |-> amg_init_count, miss |-> FALSE, result |-> "ok"]
  ELSE [amg |-> i, amg_state |-> PutState(amg_state, i, i),
        amg_disk |-> IF cache_folder = "dir" THEN amg_disk \cup {i} ELSE amg_disk,
        count |-> CountInit(amg_init_count, i), miss |-> TRUE,
        result |-> CachePathLookup]

ApplyPrepare(r) ==
  /\ amg' = r.amg
  /\ amg_state' = r.amg_state
  /\ amg_disk' = r.amg_disk
  /\ amg_init_count' = r.count
  /\ UNCHANGED <<cache_folder, device, reqState>>

\* _instance_segmentation_impl(viewer, ..., i=i, skip_update=False), called
\* by the widget named op; seg is what amg.generate gives for the slice.
_instance_segmentation_impl(op, i, seg) ==
  LET r == AmgPrepare(i) IN
  /\ ApplyPrepare(r)
  /\ IF r.result = "ok"
     THEN auto_segmentation' = SetSlice(auto_segmentation, i, seg)
     ELSE UNCHANGED auto_segmentation
  /\ last' = Call(op, r.miss, r.result)
  /\ UNCHANGED <<trackState, z_range, committed_objects, current_object, max_written>>
  /\ UNCHANGED <<svState, auxState>>

\* ------------------------------------------------------- _segment_volume
StartVolume(op) ==
  /\ sv_pc' = "slices"
  /\ sv_i' = 0
  /\ sv_offset' = 0
  /\ sv_segmentation' = Zeros
  /\ last' = Call(op, FALSE, "running")
  /\ UNCHANGED <<trackState, layerState, amgState, auxState>>

LeaveVolume ==
  /\ sv_pc' = "idle"
  /\ sv_i' = 0
  /\ sv_offset' = 0
  /\ sv_segmentation' = Zeros

\* for i in range(segmentation.shape[0]) has run through.
LoopEndsEarly(i) == i >= NSlices - 1
LoopFinished(i) == i >= NSlices

\* offset = seg_max + offset
OffsetNotAccumulated(seg_max, offset) == seg_max
NextOffset(seg_max, offset) == seg_max + offset

ShiftSeg(seg, offset) == [x \in Pixels |-> IF seg[x] # 0 THEN seg[x] + offset ELSE 0]

\* One iteration of the loop over the slices.
segment_volume_slice(seg) ==
  LET r == AmgPrepare(sv_i)
      seg_max == SegMax(seg)
  IN  /\ sv_pc = "slices"
      /\ ~LoopFinished(sv_i)
      /\ ApplyPrepare(r)
      /\ IF r.result # "ok"
         THEN /\ LeaveVolume
              /\ last' = Call("_segment_volume", r.miss, r.result)
         ELSE /\ sv_pc' = "slices"
              /\ sv_i' = sv_i + 1
              /\ IF seg_max = 0
                 THEN UNCHANGED <<sv_offset, sv_segmentation>>
                 ELSE /\ sv_segmentation' = SetSlice(sv_segmentation, sv_i, ShiftSeg(seg, sv_offset))
                      /\ sv_offset' = NextOffset(seg_max, sv_offset)
              /\ last' = Call("_segment_volume", r.miss,
                               IF seg_max = 0 THEN "empty" ELSE "running")
      /\ UNCHANGED <<trackState, layerState, auxState>>

\* merge_instance_segmentation_3d is called with the stack.
segment_volume_merge ==
  /\ sv_pc = "slices"
  /\ LoopFinished(sv_i)
  /\ sv_pc' = "merge"
  /\ last' = Call("_segment_volume", FALSE, "merging")
  /\ UNCHANGED <<sv_i, sv_offset, sv_segmentation>>
  /\ UNCHANGED <<trackState, layerState, amgState, auxState>>

\* What merge_instance_segmentation_3d may return: the background stays
\* background, an object is dropped or gets the id of an object of the stack.
MergeResults ==
  {m \in [Voxels -> 0 .. sv_offset] : \A v \in Voxels : sv_segmentation[v] = 0 => m[v] = 0}

segment_volume_done(merged) ==
  /\ sv_pc = "merge"
  /\ merged \in MergeResults
  /\ auto_segmentation' = merged
  /\ LeaveVolume
  /\ last' = Call("_segment_volume", FALSE, "ok")
  /\ UNCHANGED <<trackState, z_range, committed_objects, current_object, max_written>>
  /\ UNCHANGED <<amgState, auxState>>

\* ---------------------------------------------- amg_3d, instance_seg_3d
\* len(state.amg_state) > n_slices, the dict holding the key "cache_folder"
\* besides the slice indices.
EmbeddingsOneMissing == Cardinality(DOMAIN amg_state) + 1 >= NSlices
EmbeddingsArePrecomputed == Cardinality(DOMAIN amg_state) + 1 > NSlices

amg_3d(apply_to_volume, i, seg) ==
  /\ Idle
  /\ IF apply_to_volume
     THEN IF device \in {"cpu", "mps"} /\ ~EmbeddingsArePrecomputed
          THEN /\ last' = Call("amg_3d", FALSE, "refused")
               /\ UNCHANGED <<trackState, layerState, amgState, svState, auxState>>
          ELSE StartVolume("amg_3d")
     ELSE _instance_segmentation_impl("amg_3d", i, seg)

instance_seg_3d(apply_to_volume, i, seg) ==
  /\ Idle
  /\ IF apply_to_volume
     THEN StartVolume("instance_seg_3d")
     ELSE _instance_segmentation_impl("instance_seg_3d", i, seg)

\* The 3d tool started on a GPU, the cache folder holding the AMG state of
\* every slice.
Init3d ==
  /\ InitState
  /\ InitLayers(Voxels)
  /\ InitCache
  /\ cache_folder = "dir" /\ amg_disk = Slices
  /\ device = "cuda"

\* Interactive segmentation, single-slice automatic segmentation and commit.
Next3d ==
  \/ \E z \in Slices, prompts \in {"stop", "none", "seg"}, seg \in SliceSegs :
       segment_slice(z, prompts, seg)
  \/ \E seg \in BinaryVolumes, z_min \in Slices, z_max \in Slices :
       segment_object(seg, z_min, z_max)
  \/ \E all_slices \in BOOLEAN, i \in Slices : clear_volume(all_slices, i)
  \/ \E layer \in {"current_object", "auto_segmentation"} : commit(layer)
  \/ \E i \in Slices, seg \in AutoSegs : amg_3d(FALSE, i, seg)

Spec3d == Init3d /\ [][Next3d]_vars

\* Interactive segmentation and commit.
NextCommit ==
  \/ \E z \in Slices, prompts \in {"stop", "none", "seg"}, seg \in SliceSegs :
       segment_slice(z, prompts, seg)
  \/ \E seg \in BinaryVolumes, z_min \in Slices, z_max \in Slices :
       segment_object(seg, z_min, z_max)
  \/ \E all_slices \in BOOLEAN, i \in Slices : clear_volume(all_slices, i)
  \/ \E layer \in {"current_object", "auto_segmentation"} : commit(layer)

SpecCommit == Init3d /\ [][NextCommit]_vars

\* Automatic segmentation of single slices and of the volume.
InitAuto == InitState /\ InitLayers(Voxels) /\ InitCache

NextAuto ==
  \/ \E apply_to_volume \in BOOLEAN, i \in Slices, seg \in AutoSegs :
       amg_3d(apply_to_volume, i, seg)
  \/ \E apply_to_volume \in BOOLEAN, i \in Slices, seg \in AutoSegs :
       instance_seg_3d(apply_to_volume, i, seg)
  \/ \E seg \in AutoSegs : segment_volume_slice(seg)
  \/ segment_volume_merge
  \/ \E merged \in MergeResults : segment_volume_done(merged)

SpecAuto == InitAuto /\ [][NextAuto]_vars

\* -------------------------------------- annotator_3d._autosegment_widget
\* The widget never assigns AMG_STATE[i]: a computed state only goes to the
\* cache folder, which _load_amg_state reads when the tool starts.
_autosegment_widget(i, seg) ==
  /\ Idle
  /\ IF i \in DOMAIN amg_state
     THEN /\ amg' = amg_state[i]
          /\ UNCHANGED <<amg_init_count, amg_disk>>
     ELSE /\ amg_init_count[i] < MaxInit
          /\ amg' = i
          /\ amg_init_count' = CountInit(amg_init_count, i)
          /\ amg_disk' = IF cache_folder = "dir" THEN amg_disk \cup {i} ELSE amg_disk
  /\ UNCHANGED <<amg_state, cache_folder, device, reqState>>
  /\ auto_segmentation' = SetSlice(auto_segmentation, i, seg)
  /\ last' = Call("_autosegment_widget", i \notin DOMAIN amg_state, "ok")
  /\ UNCHANGED <<trackState, z_range, committed_objects, current_object, max_written>>
  /\ UNCHANGED <<svState, auxState>>

\* ------------------------------------ annotator_3d._segment_volume_widget
\* object_ids = np.unique(seg[start_slice]), without the background id 0.
ObjectIds(seg, start_slice) ==
  {seg[v] : v \in {u \in DOMAIN seg : u[1] = start_slice}} \ {0}

\* seg[:start_slice] = 0, on the array of the layer; the statement
\* seg[(start_slice+1):] of line 89 assigns nothing.
ClearOutsideStart(seg, start_slice) ==
  [v \in DOMAIN seg |-> IF v[1] < start_slice THEN 0 ELSE seg[v]]

\* _segment_volume_widget(layer="auto_segmentation") up to the loop over the
\* objects of _segment_volume_for_auto_segmentation.
_segment_volume_for_auto_segmentation(start_slice) ==
  /\ Idle
  /\ auto_volume' = [pc |-> "objects", start_slice |-> start_slice,
                     object_ids |-> ObjectIds(auto_segmentation, start_slice)]
  /\ auto_segmentation' = ClearOutsideStart(auto_segmentation, start_slice)
  /\ last' = Call("_segment_volume_widget", TRUE, "cleared")
  /\ UNCHANGED <<trackState, z_range, committed_objects, current_object, max_written>>
  /\ UNCHANGED <<amgState, svState, propagation, tiling>>

\* One iteration of the loop: object_seg is what segment_mask_in_volume
\* returned for the object with the smallest id left, its mask in the start
\* slice kept.
segment_volume_object(object_seg) ==
  LET object_id == SetMin(auto_volume.object_ids) IN
  /\ auto_volume.pc = "objects"
  /\ auto_volume.object_ids # {}
  /\ \A v \in Voxels :
       v[1] = auto_volume.start_slice => (object_seg[v] = 1 <=> auto_segmentation[v] = object_id)
  /\ auto_segmentation' =
       [v \in Voxels |-> IF object_seg[v] = 1 THEN object_id ELSE auto_segmentation[v]]
  /\ auto_volume' = [auto_volume EXCEPT !.object_ids = @ \ {object_id}]
  /\ last' = Call("_segment_volume_widget", TRUE, "running")
  /\ UNCHANGED <<trackState, z_range, committed_objects, current_object, max_written>>
  /\ UNCHANGED <<amgState, svState, propagation, tiling>>

\* v.layers[layer].data = seg, seg being the array of the layer.
segment_volume_widget_done ==
  /\ auto_volume.pc = "objects"
  /\ auto_volume.object_ids = {}
  /\ auto_volume' = AutoVolumeIdle
  /\ last' = Call("_segment_volume_widget", TRUE, "ok")
  /\ UNCHANGED <<trackState, layerState, amgState, svState, propagation, tiling>>

\* _segment_volume_widget(layer="current_object"): seg is what
\* _segment_volume_for_current_object returned.
segment_volume_widget_current(seg) ==
  /\ Idle
  /\ current_object' = seg
  /\ last' = Call("_segment_volume_widget", FALSE, "ok")
  /\ UNCHANGED <<trackState, z_range, committed_objects, auto_segmentation, max_written>>
  /\ UNCHANGED <<amgState, svState, auxState>>

\* _load_amg_state: the states pickled in the cache folder, if there is one.
InitAnnotator3d == InitState /\ InitLayers(Voxels) /\ InitCache /\ device = "cuda"

NextAnnotator3d ==
  \/ \E i \in Slices, seg \in AutoSegs : _autosegment_widget(i, seg)
  \/ \E start_slice \in Slices : _segment_volume_for_auto_segmentation(start_slice)
  \/ \E object_seg \in BinaryVolumes : segment_volume_object(object_seg)
  \/ segment_volume_widget_done
  \/ \E seg \in BinaryVolumes : segment_volume_widget_current(seg)

SpecAnnotator3d == InitAnnotator3d /\ [][NextAnnotator3d]_vars

\* ------------------- _instance_segmentation_impl, statement by statement
\* Requests that run _instance_segmentation_impl on background workers and
\* interleave between its statements.
ReqUnchanged ==
  UNCHANGED <<trackState, z_range, committed_objects, current_object, max_written, svState, auxState>>

req_start(w, i) ==
  /\ w_pc[w] = "idle"
  /\ w_pc' = [w_pc EXCEPT ![w] = "check"]
  /\ w_i' = [w_i EXCEPT ![w] = i]
  /\ w_init' = [w_init EXCEPT ![w] = FALSE]
  /\ UNCHANGED <<amg, amg_state, cache_folder, amg_disk, device, amg_init_count>>
  /\ UNCHANGED <<auto_segmentation, last>>
  /\ ReqUnchanged

\* if i in state.amg_state
req_check(w) ==
  /\ w_pc[w] = "check"
  /\ w_pc' = [w_pc EXCEPT ![w] = IF w_i[w] \in DOMAIN amg_state THEN "set_state" ELSE "initialize"]
  /\ UNCHANGED <<w_i, w_init>>
  /\ UNCHANGED <<amg, amg_state, cache_folder, amg_disk, device, amg_init_count>>
  /\ UNCHANGED <<auto_segmentation, last>>
  /\ ReqUnchanged

req_set_state(w) ==
  /\ w_pc[w] = "set_state"
  /\ amg' = amg_state[w_i[w]]
  /\ w_pc' = [w_pc EXCEPT ![w] = "generate"]
  /\ UNCHANGED <<w_i, w_init>>
  /\ UNCHANGED <<amg_state, cache_folder, amg_disk, device, amg_init_count>>
  /\ UNCHANGED <<auto_segmentation, last>>
  /\ ReqUnchanged

req_initialize(w) ==
  /\ w_pc[w] = "initialize"
  /\ amg' = w_i[w]
  /\ amg_init_count' = CountInit(amg_init_count, w_i[w])
  /\ w_init' = [w_init EXCEPT ![w] = TRUE]
  /\ w_pc' = [w_pc EXCEPT ![w] = "get_state"]
  /\ UNCHANGED w_i
  /\ UNCHANGED <<amg_state, cache_folder, amg_disk, device>>
  /\ UNCHANGED <<auto_segmentation, last>>
  /\ ReqUnchanged

\* amg_state_i = state.amg.get_state(); state.amg_state[i] = amg_state_i; pickle
req_get_state(w) ==
  /\ w_pc[w] = "get_state"
  /\ amg_state' = PutState(amg_state, w_i[w], amg)
  /\ amg_disk' = IF cache_folder = "dir" THEN amg_disk \cup {w_i[w]} ELSE amg_disk
  /\ w_pc' = [w_pc EXCEPT ![w] = "cache_path"]
  /\ UNCHANGED <<w_i, w_init>>
  /\ UNCHANGED <<amg, cache_folder, device, amg_init_count>>
  /\ UNCHANGED <<auto_segmentation, last>>
  /\ ReqUnchanged

\* cache_path = state.amge_state.get("cache_path", None)
req_cache_path(w) ==
  /\ w_pc[w] = "cache_path"
  /\ w_pc' = [w_pc EXCEPT ![w] = IF CachePathLookup = "ok" THEN "generate" ELSE "idle"]
  /\ last' = Call("_instance_segmentation_impl", TRUE, CachePathLookup)
  /\ UNCHANGED <<w_i, w_init>>
  /\ UNCHANGED <<amg, amg_state, cache_folder, amg_disk, device, amg_init_count>>
  /\ UNCHANGED auto_segmentation
  /\ ReqUnchanged

req_generate(w, seg) ==
  /\ w_pc[w] = "generate"
  /\ auto_segmentation' = SetSlice(auto_segmentation, w_i[w], seg)
  /\ w_pc' = [w_pc EXCEPT ![w] = "idle"]
  /\ last' = Call("_instance_segmentation_impl", w_init[w], "ok")
  /\ UNCHANGED <<w_i, w_init>>
  /\ UNCHANGED <<amg, amg_state, cache_folder, amg_disk, device, amg_init_count>>
  /\ ReqUnchanged

InitConcurrent == InitState /\ InitLayers(Voxels) /\ InitCache /\ device = "cuda"

NextConcurrent ==
  \E w \in Requests :
    \/ \E i \in Slices : req_start(w, i)
    \/ req_check(w)
    \/ req_set_state(w)
    \/ req_initialize(w)
    \/ req_get_state(w)
    \/ req_cache_path(w)
    \/ \E seg \in AutoSegs : req_generate(w, seg)

SpecConcurrent == InitConcurrent /\ [][NextConcurrent]_vars

\* The 3d tool with segment_object run step by step.
NextPropagate ==
  \/ \E annotated \in SUBSET Slices, stop_lower \in BOOLEAN, stop_upper \in BOOLEAN,
        iou_threshold \in Scores :
       segment_object_start(annotated, stop_lower, stop_upper, iou_threshold)
  \/ \E d \in Directions, score \in Scores : propagate_step(d, score)
  \/ segment_object_done
  \/ \E z \in Slices, prompts \in {"stop", "none", "seg"}, seg \in SliceSegs :
       segment_slice(z, prompts, seg)
  \/ \E all_slices \in BOOLEAN, i \in Slices : clear_volume(all_slices, i)

SpecPropagate == Init3d /\ [][NextPropagate]_vars

\* --------------------------------------------------- the segment widgets
\* segment, segment_slice and segment_frame on the layers of the tracking
\* tool, between the other calls that change current_object and the track id.
NextSegment ==
  \/ \E prompts \in {"none", "seg"}, seg \in BinaryFrames : segment(prompts, seg)
  \/ \E z \in Frames, prompts \in {"stop", "none", "seg"}, seg \in SliceSegs :
       segment_slice(z, prompts, seg)
  \/ \E t \in Frames, prompts \in {"stop", "none", "seg"}, seg \in SliceSegs :
       segment_frame(t, prompts, seg)
  \/ \E seg \in BinaryFrames, has_division \in BOOLEAN : track_object(seg, has_division)
  \/ \E t \in 1 .. MaxTrackId : select_track(t)
  \/ \E all_frames \in BOOLEAN, i \in Frames : clear_track(all_frames, i)

SpecSegment == InitTracking /\ [][NextSegment]_vars

\* ------------------------------------------------ _process_tiling_inputs
MaxTileInput == 2048
MinTileShape == 256

Max2(a, b) == IF a >= b THEN a ELSE b

\* The tile_shape part: None, the square of the one value given, or both
\* values, each raised to 256.
TileShapeSecondUnclamped(tile_shape_x, tile_shape_y) ==
  IF tile_shape_x = 0 /\ tile_shape_y = 0 THEN None
  ELSE IF tile_shape_x = 0 \/ tile_shape_y = 0
  THEN LET max_val == Max2(tile_shape_x, tile_shape_y)
       IN  IF max_val < MinTileShape THEN <<MinTileShape, MinTileShape>>
           ELSE <<max_val, max_val>>
  ELSE IF tile_shape_x < MinTileShape THEN <<MinTileShape, tile_shape_y>>
       ELSE <<tile_shape_x, tile_shape_y>>
ProcessTileShape(tile_shape_x, tile_shape_y) ==
  IF tile_shape_x = 0 /\ tile_shape_y = 0 THEN None
  ELSE IF tile_shape_x = 0 \/ tile_shape_y = 0
  THEN LET max_val == Max2(tile_shape_x, tile_shape_y)
       IN  IF max_val < MinTileShape THEN <<MinTileShape, MinTileShape>>
           ELSE <<max_val, max_val>>
  ELSE LET first == IF tile_shape_x < MinTileShape THEN <<MinTileShape, tile_shape_y>>
                    ELSE <<tile_shape_x, tile_shape_y>>
       IN  IF first[2] < MinTileShape THEN <<first[1], MinTileShape>> ELSE first

\* The halo part, tile_shape being the tile shape computed before.
HaloWithoutTiling(tile_shape, halo_x, halo_y) ==
  IF halo_x = 0 /\ halo_y = 0
  THEN IF tile_shape # None THEN <<0, 0>> ELSE None
  ELSE <<Max2(halo_x, halo_y), Max2(halo_x, halo_y)>>
ProcessHalo(tile_shape, halo_x, halo_y) ==
  IF halo_x = 0 /\ halo_y = 0
  THEN IF tile_shape # None THEN <<0, 0>> ELSE None
  ELSE LET max_val == Max2(halo_x, halo_y)
       IN  IF tile_shape = None THEN None ELSE <<max_val, max_val>>

\* The function has no raise statement: every call returns.
_process_tiling_inputs(tile_shape_x, tile_shape_y, halo_x, halo_y) ==
  LET tile_shape == ProcessTileShape(tile_shape_x, tile_shape_y)
  IN  [tile_shape |-> tile_shape, halo |-> ProcessHalo(tile_shape, halo_x, halo_y),
       result |-> "ok"]

\* The inputs the widget offers are 0 .. 2048; the values around the
\* thresholds of the function stand for them.
TilingInputs == {0, 1, MinTileShape - 1, MinTileShape, MinTileShape + 1, MaxTileInput}

apply_process_tiling_inputs(tile_shape_x, tile_shape_y, halo_x, halo_y) ==
  LET r == _process_tiling_inputs(tile_shape_x, tile_shape_y, halo_x, halo_y)
  IN  /\ tiling' = [called |-> TRUE, args |-> <<tile_shape_x, tile_shape_y, halo_x, halo_y>>,
                    tile_shape |-> r.tile_shape, halo |-> r.halo, result |-> r.result]
      /\ last' = Call("_process_tiling_inputs", FALSE, r.result)
      /\ UNCHANGED <<trackState, layerState, amgState, svState, propagation, auto_volume>>

InitTiling == InitTracking

NextTiling ==
  \E tile_shape_x \in TilingInputs, tile_shape_y \in TilingInputs,
     halo_x \in TilingInputs, halo_y \in TilingInputs :
       apply_process_tiling_inputs(tile_shape_x, tile_shape_y, halo_x, halo_y)

SpecTiling == InitTiling /\ [][NextTiling]_vars

\* ------------------------------------------------------ lineage properties
Parents(c) == {p \in DOMAIN lineage : c \in Range(lineage[p])}

RECURSIVE Descendants(_, _)
Descendants(S, n) ==
  IF n = 0 THEN S
  ELSE LET next == S \cup UNION {Range(lineage[p]) : p \in S \cap DOMAIN lineage}
       IN  Descendants(next, n - 1)

ProperDescendants(p) ==
  Descendants(Range(lineage[p]), Cardinality(DOMAIN lineage))

\* C1: a division reported by track_object for a current track id that already
\* has children leaves the lineage map unchanged and raises no error.
C1_DivisionIdempotent ==
  [][(last'.op = "track_object" /\ last'.flag /\ Len(lineage[current_track_id]) > 0)
       => (lineage' = lineage /\ last'.result = "ok")]_trackVars

\* The division on track 2 can only follow the one on track 1, so a division
\* reported for track 1 after it is a re-triggered one.
C1_Witness ==
  /\ last.op = "track_object" /\ last.flag /\ last.result = "ok"
  /\ current_track_id = 1
  /\ Len(lineage[1]) = 2
  /\ 2 \in DOMAIN lineage /\ Len(lineage[2]) = 2

\* C2: a division recorded for a parent with an empty child list allocates two
\* track ids that were not keys of the lineage before, sets them as the
\* parent's children and gives both an empty child list.
C2_ChildrenAreUnused ==
  [][(last'.op = "track_object" /\ last'.flag /\ Len(lineage[current_track_id]) = 0)
       => LET d == lineage'[current_track_id] IN
          /\ Len(d) = 2 /\ d[1] # d[2]
          /\ d[1] \notin DOMAIN lineage /\ d[2] \notin DOMAIN lineage
          /\ lineage'[d[1]] = <<>> /\ lineage'[d[2]] = <<>>]_trackVars

\* C3: the lineage is a forest: every child is a key, every track id has at
\* most one parent and no track id is its own ancestor.
C3_LineageIsForest ==
  /\ \A p \in DOMAIN lineage : Range(lineage[p]) \subseteq DOMAIN lineage
  /\ \A c \in DOMAIN lineage : Cardinality(Parents(c)) <= 1
  /\ \A p \in DOMAIN lineage : p \notin ProperDescendants(p)

\* C6: commit_track appends exactly one lineage map to committed_lineages, and
\* no step removes or changes an entry that is already there.
C6_LineagesAccumulate ==
  [][/\ Len(committed_lineages') >= Len(committed_lineages)
     /\ SubSeq(committed_lineages', 1, Len(committed_lineages)) = committed_lineages
     /\ Len(committed_lineages') =
          Len(committed_lineages) + (IF last'.op = "commit_track" THEN 1 ELSE 0)]_trackVars

\* A second commit_track, then a division and a clear_track, with both
\* committed lineages still there.
C6_Witness ==
  /\ Len(committed_lineages) = 2
  /\ last.op = "clear_track"

\* C18: after commit_track and after clear_track with all_frames true the
\* tracking state is current_track_id = 1 and lineage = {1: []}; clear_track
\* with all_frames false leaves current_track_id and the lineage unchanged.
C18_TrackingStateReset ==
  [][/\ (last'.op = "commit_track" \/ (last'.op = "clear_track" /\ last'.flag))
          => (current_track_id' = 1 /\ lineage' = (1 :> <<>>))
     /\ (last'.op = "clear_track" /\ ~last'.flag)
          => (current_track_id' = current_track_id /\ lineage' = lineage)]_trackVars

\* clear_track on one frame after a division, the daughter track selected.
C18_Witness ==
  /\ last.op = "clear_track" /\ ~last.flag
  /\ current_track_id = 2
  /\ Len(lineage[1]) = 2
  /\ Len(committed_lineages) = 1

\* ------------------------------------------------------- commit properties
CommittedLayer == IF last'.flag THEN auto_segmentation ELSE current_object
IdsIn(arr) == {arr[v] : v \in DOMAIN arr}

\* C4: a commit writes every non-zero id of the committed part of the layer
\* shifted by the maximum id of the whole committed_objects volume, so no id
\* it writes was present in committed_objects before.
C4_CommitAvoidsCommittedIds ==
  [][last'.op = "commit" =>
       \A v \in Voxels : CommitMask(CommittedLayer, v) =>
          /\ committed_objects'[v] = CommittedLayer[v] + ArrMax(committed_objects)
          /\ committed_objects'[v] \notin IdsIn(committed_objects)]_vars

\* A commit restricted to slice 0 by z_range, made while slice 1 holds the
\* only committed id.
C4_Witness ==
  /\ last.op = "commit"
  /\ z_range = <<0, 0>>
  /\ committed_objects[<<1, 1>>] = 1
  /\ committed_objects[<<0, 1>>] = 2

\* C5: the maximum id of committed_objects never decreases, and every id a
\* commit writes is greater than every id written by an earlier commit.
C5_IdsNeverReused ==
  [][/\ ArrMax(committed_objects') >= ArrMax(committed_objects)
     /\ last'.op = "commit" =>
          \A v \in Voxels : CommitMask(CommittedLayer, v) =>
             committed_objects'[v] > max_written]_vars

\* A commit that has overwritten the object of an earlier commit: an id below
\* the largest written one is gone from committed_objects.
C5_Witness ==
  /\ last.op = "commit"
  /\ max_written = 2
  /\ IdsIn(committed_objects) = {0, 2}

\* C21: a commit loses no segmented voxel: every voxel that is non-zero in the
\* committed layer before commit(layer) is non-zero in committed_objects
\* afterwards, whatever operations came before, the layer being cleared.
C21_CommitLosesNoVoxel ==
  [][last'.op = "commit" =>
       \A v \in Voxels : CommittedLayer[v] # 0 => committed_objects'[v] # 0]_vars

\* -------------------------------------------------- AMG cache properties
SliceRequestOps == {"amg_3d", "instance_seg_3d", "_autosegment_widget",
                    "_instance_segmentation_impl"}
AutoSegOps == SliceRequestOps \cup {"_segment_volume"}

\* C7: the first automatic-segmentation request for slice i creates the cache
\* entry for i and every later request for i reuses it: after a request the
\* entry exists, and the oracle is initialized at most once per slice.
C7_CacheEntryCreatedOnceThenReused ==
  /\ (last.op \in SliceRequestOps /\ last.result = "ok") => amg \in DOMAIN amg_state
  /\ \A i \in Slices : amg_init_count[i] <= 1

\* C8: a request for a slice without a cache entry stores the recomputed state
\* under that slice and completes with a segmentation; it does not end in an
\* error.
C8_CacheMissIsNoError ==
  (last.op \in AutoSegOps /\ last.flag) =>
     /\ last.result # "error"
     /\ amg \in DOMAIN amg_state

\* C9: of two requests for the same slice that are in progress together, at
\* most one initializes the oracle.
C9_SameSliceSerialized ==
  \A w1 \in Requests, w2 \in Requests :
     (w1 # w2 /\ w_pc[w1] # "idle" /\ w_pc[w2] # "idle" /\ w_i[w1] = w_i[w2])
        => ~(w_init[w1] /\ w_init[w2])

\* C10: the merge starts only when the loop has run for every slice, and once
\* it has started no slice is segmented: the oracle and its cache are left
\* alone and the next step ends _segment_volume.
C10_MergeAfterAllSlices ==
  [][/\ sv_pc' = "merge" => sv_i' = NSlices
     /\ sv_pc = "merge" =>
          /\ sv_pc' = "idle"
          /\ amg' = amg /\ amg_state' = amg_state /\ amg_init_count' = amg_init_count]_vars

\* The merge has started on a stack that holds objects.
C10_Witness ==
  /\ sv_pc = "merge"
  /\ sv_offset > 0
  /\ \E v \in Voxels : v[1] = NSlices - 1 /\ sv_segmentation[v] # 0

SliceIds(stack, z) == {stack[v] : v \in {u \in DOMAIN stack : u[1] = z}} \ {0}

\* C19: in _segment_volume the running offset equals the largest id assigned
\* so far and never decreases; before the merge the non-zero ids of any two
\* different slices of the stack are disjoint; a slice whose segmentation is
\* empty leaves the offset and the stack unchanged.
C19_OffsetSeparatesSlices ==
  [][/\ sv_pc' \in {"slices", "merge"} =>
          /\ sv_offset' = ArrMax(sv_segmentation')
          /\ \A z1 \in Slices, z2 \in Slices :
                z1 # z2 => SliceIds(sv_segmentation', z1) \cap SliceIds(sv_segmentation', z2) = {}
     /\ (sv_pc = "slices" /\ sv_pc' # "idle") => sv_offset' >= sv_offset
     /\ (sv_pc = "slices" /\ sv_i' = sv_i + 1) =>
          IF last'.result = "empty"
          THEN sv_offset' = sv_offset /\ sv_segmentation' = sv_segmentation
          ELSE sv_offset' > sv_offset /\ SliceIds(sv_segmentation', sv_i) # {}]_vars

\* The last slice came back empty after a slice with an object.
C19_Witness ==
  /\ sv_pc = "slices" /\ sv_i = NSlices
  /\ last.result = "empty"
  /\ sv_offset > 0

\* C16: on a cpu or mps device amg_3d with apply_to_volume starts the
\* volumetric segmentation only if the AMG state is cached for every slice of
\* the volume; otherwise it returns without calling the oracle and without
\* changing the auto_segmentation layer.
C16_CpuVolumeNeedsPrecomputed ==
  [][(/\ last'.op = "amg_3d" /\ last'.result \in {"running", "refused"}
      /\ device \in {"cpu", "mps"})
       => /\ last'.result = "running" =>
                (Slices \subseteq DOMAIN amg_state /\ sv_pc' = "slices")
          /\ ~(Slices \subseteq DOMAIN amg_state) =>
                /\ last'.result = "refused"
                /\ sv_pc' = "idle"
                /\ auto_segmentation' = auto_segmentation
                /\ amg' = amg /\ amg_state' = amg_state
                /\ amg_init_count' = amg_init_count]_vars

\* The volumetric segmentation started on a cpu, the state of a slice having
\* been computed in the session.
C16_Witness ==
  /\ device = "cpu"
  /\ last.op = "amg_3d" /\ last.result = "running"
  /\ sv_pc = "slices"
  /\ \E i \in Slices : amg_init_count[i] > 0

\* C17: when _segment_volume_for_auto_segmentation begins to propagate the
\* first object, every slice of the auto segmentation below start_slice and
\* every slice above start_slice is all zero.
C17_ClearedOutsideStartSlice ==
  (/\ auto_volume.pc = "objects"
   /\ last.op = "_segment_volume_widget" /\ last.result = "cleared"
   /\ auto_volume.object_ids # {})
     => \A v \in Voxels : v[1] # auto_volume.start_slice => auto_segmentation[v] = 0

\* --------------------------------------------------- propagation properties
Beyond(d, front) == {v \in Voxels : IF d = 1 THEN v[1] < front ELSE v[1] > front}

\* C11: per direction, from an ACTIVE frontier at slice i the next slice is
\* committed and the frontier advances only if the score is at least
\* iou_threshold; a lower score stops the direction with
\* STOPPED_LOW_AGREEMENT and commits nothing; a next slice outside the volume
\* stops it with STOPPED_BOUNDARY; a stopped direction never commits again.
C11_PropagationTransitions ==
  [][(propagation.pc = "run" /\ propagation'.pc = "run") =>
       \A d \in Directions :
         LET front == propagation.front[d]
             next == front + Step(d)
             stepped == propagation' # propagation /\ propagation'.dir = d
             agreed == propagation'.score >= propagation.iou_threshold
         IN  /\ propagation.status[d] # "ACTIVE" =>
                   /\ propagation'.status[d] = propagation.status[d]
                   /\ propagation'.front[d] = front
                   /\ \A v \in Beyond(d, front) : propagation'.seg[v] = propagation.seg[v]
             /\ (propagation.status[d] = "ACTIVE" /\ stepped) =>
                   /\ next \notin Slices =>
                         /\ propagation'.status[d] = "STOPPED_BOUNDARY"
                         /\ propagation'.seg = propagation.seg
                   /\ (next \in Slices /\ agreed) =>
                         /\ propagation'.status[d] = "ACTIVE"
                         /\ propagation'.front[d] = next
                         /\ \A v \in Voxels : v[1] = next => propagation'.seg[v] # 0
                   /\ (next \in Slices /\ ~agreed) =>
                         /\ propagation'.status[d] = "STOPPED_LOW_AGREEMENT"
                         /\ propagation'.front[d] = front
                         /\ propagation'.seg = propagation.seg
             /\ (propagation'.front[d] # front
                  \/ \E v \in Beyond(d, front) : propagation'.seg[v] # propagation.seg[v])
                   => (propagation.status[d] = "ACTIVE" /\ next \in Slices /\ agreed)]_vars

\* From the annotated slice 0 the upper direction has committed slice 1 on a
\* score equal to the threshold and then stopped at the boundary.
C11_Witness ==
  /\ propagation.pc = "run"
  /\ propagation.annotated = {0}
  /\ propagation.front = <<0, 1>>
  /\ propagation.status[2] = "STOPPED_BOUNDARY"
  /\ propagation.seg[<<1, 1>>] = 1
  /\ propagation.iou_threshold = 1

\* ------------------------------------------------ segment widget properties
SegmentOps == {"segment", "segment_slice", "segment_frame"}

\* C12: when the slice segmenter returns None, segment, segment_slice and
\* segment_frame leave current_object unchanged in every slice and raise no
\* error.
C12_NoneSkipsSegmentation ==
  [][(last'.op \in SegmentOps /\ last'.result = "none")
       => (current_object' = current_object /\ last'.result # "error")]_vars

\* segment_frame skipped on a layer that holds an object of the current track.
C12_Witness ==
  /\ last.op = "segment_frame" /\ last.result = "none"
  /\ current_track_id = 2
  /\ \E v \in DOMAIN current_object : current_object[v] = 2

\* C13: on a stop directive segment_slice and segment_frame do not call the
\* segmentation oracle and leave current_object unchanged; on a slice without
\* annotation the oracle is asked and the segmentation is skipped, which is a
\* different outcome.
C13_StopDoesNothing ==
  [][/\ (last'.op \in {"segment_slice", "segment_frame"} /\ last'.result = "stop")
          => (~last'.flag /\ current_object' = current_object)
     /\ (last'.op \in {"segment_slice", "segment_frame"} /\ last'.result = "none")
          => (last'.flag /\ current_object' = current_object)]_vars

\* A stop directive met by segment_slice on a layer that holds an object.
C13_Witness ==
  /\ last.op = "segment_slice" /\ last.result = "stop" /\ ~last.flag
  /\ \E v \in DOMAIN current_object : current_object[v] # 0

\* ----------------------------------------------------- tiling properties
\* C14: when tiling is requested and exactly one of halo_x, halo_y is 0, the
\* normalization of the tiling inputs ends in a validation error.
C14_OneHaloAxisIsError ==
  (/\ tiling.called
   /\ tiling.args[1] # 0 \/ tiling.args[2] # 0
   /\ (tiling.args[3] = 0) # (tiling.args[4] = 0))
     => tiling.result = "error"

\* C15: tile_shape is None exactly when both tile inputs are 0; otherwise both
\* dimensions are at least 256, with both inputs given a dimension of 256 or
\* more is returned unchanged, and with one input given the result is the
\* square of max(given value, 256).
C15_TileShapeClamped ==
  tiling.called =>
    LET x == tiling.args[1]
        y == tiling.args[2]
        t == tiling.tile_shape
    IN  /\ (t = None) <=> (x = 0 /\ y = 0)
        /\ t # None =>
              /\ Len(t) = 2 /\ t[1] >= 256 /\ t[2] >= 256
              /\ (x # 0 /\ y # 0 /\ x >= 256) => t[1] = x
              /\ (x # 0 /\ y # 0 /\ y >= 256) => t[2] = y
              /\ (x = 0 \/ y = 0) =>
                    LET m == Max2(Max2(x, y), 256) IN t = <<m, m>>

\* Both tile inputs given, the first large enough and the second below 256.
C15_Witness ==
  /\ tiling.called
  /\ tiling.args[1] = 257 /\ tiling.args[2] = 1
  /\ tiling.tile_shape = <<257, 256>>

\* C20: the returned halo is None if and only if the returned tile_shape is
\* None, and with tiling set and both halo inputs 0 the halo is (0, 0).
C20_NoHaloWithoutTiling ==
  tiling.called =>
    /\ (tiling.halo = None) <=> (tiling.tile_shape = None)
    /\ (tiling.tile_shape # None /\ tiling.args[3] = 0 /\ tiling.args[4] = 0)
          => tiling.halo = <<0, 0>>

\* A halo given without any tiling.
C20_Witness ==
  /\ tiling.called
  /\ tiling.args[1] = 0 /\ tiling.args[2] = 0
  /\ tiling.args[3] = 256 /\ tiling.args[4] = 1
  /\ tiling.halo = None

====
